---- MODULE Spec2Model ----
(***************************************************************************)
(* A model of facebook_quantifier.py: the FacebookQuantifier class, which  *)
(* scans an archive of JSON files, collects the dates of the events found  *)
(* in them as attributes of the object, and writes a table of counts per   *)
(* activity and date.                                                      *)
(*                                                                         *)
(* JSON values are modelled as tagged records, strings as sequences of     *)
(* tokens (so that Python's substring test `a in b` is a contiguous        *)
(* subsequence test), calendar dates as day numbers since the epoch, and   *)
(* a raised exception as the field exc of a result.                        *)
(***************************************************************************)
EXTENDS Integers, Sequences, FiniteSets, TLC

\* ------------------------------------------------------------------ bounds
\* The files of an archive, the events of a list of a file of events, the
\* messages of a conversation, the posts of a file of posts and the
\* categories of a category tree.
MaxFiles == 2
MaxEvents == 2
MaxMessages == 3
MaxPosts == 3
MaxCategories == 2

\* ------------------------------------------------------------- JSON values
NoStr == <<>>
JNull == [t |-> "null", n |-> 0, s |-> NoStr, keys |-> <<>>, kids |-> <<>>]
JInt(i) == [t |-> "int", n |-> i, s |-> NoStr, keys |-> <<>>, kids |-> <<>>]
JBool(b) == [t |-> "bool", n |-> IF b THEN 1 ELSE 0, s |-> NoStr, keys |-> <<>>, kids |-> <<>>]
JStr(str) == [t |-> "str", n |-> 0, s |-> str, keys |-> <<>>, kids |-> <<>>]
JList(items) == [t |-> "list", n |-> 0, s |-> NoStr, keys |-> <<>>, kids |-> items]
JDict(ks, vs) == [t |-> "dict", n |-> 0, s |-> NoStr, keys |-> ks, kids |-> vs]

\* A dict with one, two or three entries, in insertion order.
D1(k1, v1) == JDict(<<k1>>, <<v1>>)
D2(k1, v1, k2, v2) == JDict(<<k1, k2>>, <<v1, v2>>)
D3(k1, v1, k2, v2, k3, v3) == JDict(<<k1, k2, k3>>, <<v1, v2, v3>>)

\* Key and field names, as token sequences.
TIMESTAMP == <<"timestamp">>
CREATED_TIMESTAMP == <<"created_", "timestamp">>
ADDED_TIMESTAMP == <<"added_", "timestamp">>
START_TIMESTAMP == <<"start_", "timestamp">>
TIMESTAMP_MS == <<"timestamp", "_ms">>

\* ---------------------------------------------------------- Python helpers
NoExc == ""

\* The result of an evaluation: the value it returns, or the exception it raises.
Ok(v) == [exc |-> NoExc, val |-> v]
Raise(e) == [exc |-> e, val |-> <<>>]

\* Evaluate r, then F on its value; an exception of r is the result.
Then(r, F(_)) == IF r.exc = NoExc THEN F(r.val) ELSE Raise(r.exc)

\* a in b for two strings: a occurs in b as a contiguous run.
IsSubstring(a, b) ==
    \E i \in 1..(Len(b) + 1) :
        /\ i + Len(a) - 1 <= Len(b)
        /\ \A j \in 1..Len(a) : b[i + j - 1] = a[j]

HasKey(d, k) == \E i \in 1..Len(d.keys) : d.keys[i] = k

KeyIndex(d, k) == CHOOSE i \in 1..Len(d.keys) : d.keys[i] = k

\* for x in node: the items
PyIter(node) ==
    CASE node.t = "list" -> Ok(node.kids)
      [] node.t = "dict" -> Ok([i \in 1..Len(node.keys) |-> JStr(node.keys[i])])
      [] node.t = "str" -> Ok([i \in 1..Len(node.s) |-> JStr(<<node.s[i]>>)])
      [] OTHER -> Raise("TypeError")

\* name in node, for a string name
PyIn(name, node) ==
    CASE node.t = "dict" -> Ok(HasKey(node, name))
      [] node.t = "str" -> Ok(IsSubstring(name, node.s))
      [] node.t = "list" -> Ok(\E i \in 1..Len(node.kids) : node.kids[i] = JStr(name))
      [] OTHER -> Raise("TypeError")

\* node[name], for a string name
PyIndex(node, name) ==
    IF node.t # "dict" THEN Raise("TypeError")
    ELSE IF HasKey(node, name) THEN Ok(node.kids[KeyIndex(node, name)])
    ELSE Raise("KeyError")

\* node.get(name): None when the key is absent
PyGet(node, name) ==
    IF node.t # "dict" THEN Raise("AttributeError")
    ELSE IF HasKey(node, name) THEN Ok(node.kids[KeyIndex(node, name)])
    ELSE Ok(JNull)

\* node.values()
PyValues(node) == IF node.t = "dict" THEN Ok(node.kids) ELSE Raise("AttributeError")

\* bool(node)
Truthy(node) ==
    CASE node.t = "null" -> FALSE
      [] node.t = "int" -> node.n # 0
      [] node.t = "bool" -> node.n # 0
      [] node.t = "str" -> node.s # <<>>
      [] node.t = "list" -> node.kids # <<>>
      [] node.t = "dict" -> node.keys # <<>>

\* ------------------------------------------------------------------- dates
SecondsPerDay == 24 * 60 * 60

\* datetime.fromtimestamp(ts).date(), with the local zone taken as UTC.
DateOf(ts) == ts \div SecondsPerDay

FromTimestamp(node) ==
    IF node.t \in {"int", "bool"} THEN Ok(DateOf(node.n)) ELSE Raise("TypeError")

\* datetime.fromtimestamp(node / 1000).date()
FromTimestampMs(node) ==
    IF node.t \in {"int", "bool"} THEN Ok(DateOf(node.n \div 1000)) ELSE Raise("TypeError")

\* The value of an attribute of the object: a list of dates, or None.
DateList(dates) == [none |-> FALSE, dates |-> dates]
NoneValue == [none |-> TRUE, dates |-> <<>>]

\* ---------------------------------------------------------- get_timestamps
\* date(item[timestr]) if timestr in item, as a list of one date or none
ScanItem(item, timestr) ==
    Then(PyIn(timestr, item), LAMBDA has :
        IF has
        THEN Then(PyIndex(item, timestr), LAMBDA v :
             Then(FromTimestamp(v), LAMBDA d : Ok(<<d>>)))
        ELSE Ok(<<>>))

\* [date(item[timestr]) for item in items if timestr in item]
RECURSIVE ScanItems(_, _)
ScanItems(items, timestr) ==
    IF items = <<>> THEN Ok(<<>>)
    ELSE Then(ScanItem(Head(items), timestr), LAMBDA h :
         Then(ScanItems(Tail(items), timestr), LAMBDA t : Ok(h \o t)))

\* [... for value in values for item in value if timestr in item]
RECURSIVE ScanValues(_, _)
ScanValues(values, timestr) ==
    IF values = <<>> THEN Ok(<<>>)
    ELSE Then(PyIter(Head(values)), LAMBDA items :
         Then(ScanItems(items, timestr), LAMBDA h :
         Then(ScanValues(Tail(values), timestr), LAMBDA t : Ok(h \o t))))

\* Tier 1: dict[str, list[dict[str, int]]]
ShallowScan(json_file, timestr) ==
    Then(PyValues(json_file), LAMBDA values : ScanValues(values, timestr))

\* [... for key in keys for inner_key in json_file.get(key).values() for item in inner_key ...]
RECURSIVE NestedScanKeys(_, _, _)
NestedScanKeys(json_file, ks, timestr) ==
    IF ks = <<>> THEN Ok(<<>>)
    ELSE Then(PyGet(json_file, Head(ks).s), LAMBDA inner :
         Then(PyValues(inner), LAMBDA values :
         Then(ScanValues(values, timestr), LAMBDA h :
         Then(NestedScanKeys(json_file, Tail(ks), timestr), LAMBDA t : Ok(h \o t)))))

\* Tier 2: dict[str, dict[str, list[dict[str, int]]]]
NestedScan(json_file, timestr) ==
    Then(PyIter(json_file), LAMBDA ks : NestedScanKeys(json_file, ks, timestr))

\* get_timestamps on loaded content: the list of dates, or None.
get_timestamps(json_file, timestr) ==
    Then(ShallowScan(json_file, timestr), LAMBDA shallow :
        IF shallow # <<>> THEN Ok(DateList(shallow))
        ELSE Then(NestedScan(json_file, timestr), LAMBDA nested :
                  IF nested # <<>> THEN Ok(DateList(nested)) ELSE Ok(NoneValue)))

\* ----------------------------------------------------------- get_own_posts
\* The text of str(node) for a JSON value, as tokens.
RECURSIVE Repr(_)
RECURSIVE ReprSeq(_)
RECURSIVE ReprEntries(_, _)
Repr(node) ==
    CASE node.t = "null" -> <<"None">>
      [] node.t = "int" -> <<"0-9">>
      [] node.t = "bool" -> IF node.n = 1 THEN <<"True">> ELSE <<"False">>
      [] node.t = "str" -> <<"'">> \o node.s \o <<"'">>
      [] node.t = "list" -> <<"[">> \o ReprSeq(node.kids) \o <<"]">>
      [] node.t = "dict" -> <<"{">> \o ReprEntries(node.keys, node.kids) \o <<"}">>

ReprSeq(items) ==
    IF items = <<>> THEN <<>>
    ELSE IF Len(items) = 1 THEN Repr(Head(items))
    ELSE Repr(Head(items)) \o <<", ">> \o ReprSeq(Tail(items))

ReprEntries(ks, vs) ==
    IF ks = <<>> THEN <<>>
    ELSE LET e == <<"'">> \o Head(ks) \o <<"'", ": ">> \o Repr(Head(vs))
         IN  IF Len(ks) = 1 THEN e
             ELSE e \o <<", ">> \o ReprEntries(Tail(ks), Tail(vs))

\* str(item.values())
StrValues(item) == <<"dict_values([">> \o ReprSeq(item.kids) \o <<"])">>

MEDIA == <<"media">>
EXTERNAL_CONTEXT == <<"external_context">>

\* A Python dict from names to lists of dates, in insertion order.
EmptyDict == [keys |-> <<>>, vals |-> <<>>]

DictHas(d, k) == \E i \in 1..Len(d.keys) : d.keys[i] = k

DictGet(d, k) == d.vals[CHOOSE i \in 1..Len(d.keys) : d.keys[i] = k]

\* d[k] = v
DictSet(d, k, v) ==
    IF DictHas(d, k)
    THEN [keys |-> d.keys,
          vals |-> [i \in 1..Len(d.keys) |-> IF d.keys[i] = k THEN v ELSE d.vals[i]]]
    ELSE [keys |-> Append(d.keys, k), vals |-> Append(d.vals, v)]

\* del d[k]
RECURSIVE DictDelFrom(_, _, _)
DictDelFrom(ks, vs, k) ==
    IF ks = <<>> THEN EmptyDict
    ELSE IF Head(ks) = k THEN DictDelFrom(Tail(ks), Tail(vs), k)
    ELSE [keys |-> <<Head(ks)>> \o DictDelFrom(Tail(ks), Tail(vs), k).keys,
          vals |-> <<Head(vs)>> \o DictDelFrom(Tail(ks), Tail(vs), k).vals]

DictDel(d, k) == DictDelFrom(d.keys, d.vals, k)

\* PostFilter had own_posts_links not excluded the posts with media.
PostFilter_Overlap(post_type, text) ==
    CASE post_type = "own_posts_all" -> TRUE
      [] post_type = "own_posts_media" -> IsSubstring(MEDIA, text)
      [] post_type = "own_posts_text_only" ->
            ~IsSubstring(EXTERNAL_CONTEXT, text) /\ ~IsSubstring(MEDIA, text)
      [] post_type = "own_posts_links" -> IsSubstring(EXTERNAL_CONTEXT, text)

\* The condition of each of the four comprehensions of get_own_posts, on
\* the text of str(item.values()).
PostFilter(post_type, text) ==
    CASE post_type = "own_posts_all" -> TRUE
      [] post_type = "own_posts_media" -> IsSubstring(MEDIA, text)
      [] post_type = "own_posts_text_only" ->
            ~IsSubstring(EXTERNAL_CONTEXT, text) /\ ~IsSubstring(MEDIA, text)
      [] post_type = "own_posts_links" ->
            IsSubstring(EXTERNAL_CONTEXT, text) /\ ~IsSubstring(MEDIA, text)

\* date(item["timestamp"]) if the condition of post_type holds of item
PostDate(item, post_type) ==
    IF post_type # "own_posts_all" /\ item.t # "dict" THEN Raise("AttributeError")
    ELSE IF post_type # "own_posts_all" /\ ~PostFilter(post_type, StrValues(item))
    THEN Ok(<<>>)
    ELSE Then(PyIndex(item, TIMESTAMP), LAMBDA v :
         Then(FromTimestamp(v), LAMBDA d : Ok(<<d>>)))

\* [date(item["timestamp"]) for item in items if <the condition of post_type>]
RECURSIVE PostDates(_, _)
PostDates(items, post_type) ==
    IF items = <<>> THEN Ok(<<>>)
    ELSE Then(PostDate(Head(items), post_type), LAMBDA h :
         Then(PostDates(Tail(items), post_type), LAMBDA t : Ok(h \o t)))

\* The keys of posts, in the order get_own_posts sets them.
OwnPostTypes == <<"own_posts_all", "own_posts_media", "own_posts_text_only", "own_posts_links">>

RECURSIVE OwnPostsFrom(_, _, _)
OwnPostsFrom(items, types, posts) ==
    IF types = <<>> THEN Ok(posts)
    ELSE Then(PostDates(items, Head(types)), LAMBDA dates :
              OwnPostsFrom(items, Tail(types), DictSet(posts, Head(types), dates)))

\* get_own_posts on loaded content: the dict posts.
get_own_posts(json_file) ==
    Then(PyIter(json_file), LAMBDA items : OwnPostsFrom(items, OwnPostTypes, EmptyDict))

\* ------------------------------------------------------------ get_messages
\* str.lower(), on the letters the model's names are written with.
Lower(c) ==
    CASE c = "A" -> "a"
      [] c = "B" -> "b"
      [] OTHER -> c

\* name.replace(" ", "").lower(); a name is a sequence of one-letter tokens.
RECURSIVE Normalize(_)
Normalize(name) ==
    IF name = <<>> THEN <<>>
    ELSE IF Head(name) = " " THEN Normalize(Tail(name))
    ELSE <<Lower(Head(name))>> \o Normalize(Tail(name))

SENDER_NAME == <<"sender_name">>
MESSAGES == <<"messages">>

\* IsSender had the sender's name been compared as it is written.
IsSender_Raw(message, user_name) ==
    Then(PyIndex(message, SENDER_NAME), LAMBDA who :
        IF who.t # "str" THEN Raise("AttributeError")
        ELSE Ok(who.s = user_name))

\* Whether message["sender_name"].replace(" ", "").lower() == user_name
IsSender(message, user_name) ==
    Then(PyIndex(message, SENDER_NAME), LAMBDA who :
        IF who.t # "str" THEN Raise("AttributeError")
        ELSE Ok(Normalize(who.s) = user_name))

\* date(message["timestamp_ms"] / 1000) if the sender is (sent) or is not
\* (not sent) the user
MessageDate(message, user_name, sent) ==
    Then(IsSender(message, user_name), LAMBDA is_user :
        IF is_user = sent
        THEN Then(PyIndex(message, TIMESTAMP_MS), LAMBDA v :
             Then(FromTimestampMs(v), LAMBDA d : Ok(<<d>>)))
        ELSE Ok(<<>>))

RECURSIVE MessageDates(_, _, _)
MessageDates(items, user_name, sent) ==
    IF items = <<>> THEN Ok(<<>>)
    ELSE Then(MessageDate(Head(items), user_name, sent), LAMBDA h :
         Then(MessageDates(Tail(items), user_name, sent), LAMBDA t : Ok(h \o t)))

\* The two lists one message file adds to messages.
MessageFileDates(json_file, user_name) ==
    Then(PyIndex(json_file, MESSAGES), LAMBDA ms :
    Then(PyIter(ms), LAMBDA items :
    Then(MessageDates(items, user_name, TRUE), LAMBDA sent :
    Then(MessageDates(items, user_name, FALSE), LAMBDA received :
         Ok([sent |-> sent, received |-> received])))))

\* The dict messages before the first file.
NewMessages == [keys |-> <<"message_sent", "message_received">>, vals |-> <<<<>>, <<>>>>]

\* messages after one more file has been read.
ExtendMessages(msgs, add) ==
    [keys |-> msgs.keys,
     vals |-> [i \in 1..Len(msgs.keys) |->
                 CASE msgs.keys[i] = "message_sent" -> msgs.vals[i] \o add.sent
                   [] msgs.keys[i] = "message_received" -> msgs.vals[i] \o add.received
                   [] OTHER -> msgs.vals[i]]]

\* MessagesResult had the fallback been left out.
MessagesResult_NoFallback(msgs) == msgs

\* The dict get_messages returns once every file has been read.
MessagesResult(msgs) ==
    IF DictGet(msgs, "message_sent") = <<>>
    THEN DictSet(DictDel(DictDel(msgs, "message_sent"), "message_received"),
                 "message_received_or_sent", DictGet(msgs, "message_received"))
    ELSE msgs

MessageExclude == {"autofill_information.json", "secret_groups.json"}

\* InMessages had only the conversations of the inbox been under it.
InMessages_InboxOnly(file) ==
    Len(file.dir) >= 2 /\ file.dir[1] = "messages" /\ file.dir[2] = "inbox"

\* Path(self.folder, 'messages') in file.parents: dir is the file's directory,
\* relative to the folder, as a sequence of names.
InMessages(file) == Len(file.dir) >= 1 /\ file.dir[1] = "messages"

IsMessageFile(file) == InMessages(file) /\ file.name \notin MessageExclude

\* [file for file in files if <in messages> if file.name not in exclude]
RECURSIVE SelectMessageFiles(_)
SelectMessageFiles(files) ==
    IF files = <<>> THEN <<>>
    ELSE IF IsMessageFile(Head(files))
         THEN <<Head(files)>> \o SelectMessageFiles(Tail(files))
         ELSE SelectMessageFiles(Tail(files))

\* ------------------------------------------------- get_viewed, get_visited
NAME == <<"name">>
ENTRIES == <<"entries">>
CHILDREN == <<"children">>
DATA == <<"data">>
VALUE == <<"value">>

\* [date(item["timestamp"]) for item in items]
RECURSIVE EntryDates(_)
EntryDates(items) ==
    IF items = <<>> THEN Ok(<<>>)
    ELSE Then(PyIndex(Head(items), TIMESTAMP), LAMBDA v :
         Then(FromTimestamp(v), LAMBDA d :
         Then(EntryDates(Tail(items)), LAMBDA t : Ok(<<d>> \o t))))

\* The items of node[key], for iterating over them.
ItemsAt(node, key) == Then(PyIndex(node, key), LAMBDA v : PyIter(v))

\* [date(item["timestamp"]) for item in node["entries"]]
DatesOfEntries(node) == Then(ItemsAt(node, ENTRIES), LAMBDA items : EntryDates(items))

\* The days from 1970-01-01 to a calendar date.
DaysFromCivil(y, m, d) ==
    LET yy == IF m <= 2 THEN y - 1 ELSE y
        era == yy \div 400
        yoe == yy - era * 400
        mp == IF m > 2 THEN m - 3 ELSE m + 9
        doy == (153 * mp + 2) \div 5 + d - 1
        doe == yoe * 365 + yoe \div 4 - yoe \div 100 + doy
    IN  era * 146097 + doe - 719468

MonthAbbr == <<"Jan", "Feb", "Mar", "Apr", "May", "Jun",
               "Jul", "Aug", "Sep", "Oct", "Nov", "Dec">>

\* int(text), for the numbers the model's date strings are written with.
IsNumeral(text) == text \in {"1", "20", "31", "1970", "2014"}

NumeralValue(text) ==
    CASE text = "1" -> 1
      [] text = "20" -> 20
      [] text = "31" -> 31
      [] text = "1970" -> 1970
      [] text = "2014" -> 2014

\* datetime.strptime(node, '%b %d, %Y').date(); the string is written as the
\* tokens month, " ", day, ", ", year.
StrpDate(node) ==
    IF node.t # "str" THEN Raise("TypeError")
    ELSE IF /\ Len(node.s) = 5
            /\ \E m \in 1..12 : MonthAbbr[m] = node.s[1]
            /\ node.s[2] = " "
            /\ IsNumeral(node.s[3]) /\ NumeralValue(node.s[3]) <= 31
            /\ node.s[4] = ", "
            /\ IsNumeral(node.s[5])
         THEN Ok(DaysFromCivil(NumeralValue(node.s[5]),
                               CHOOSE m \in 1..12 : MonthAbbr[m] = node.s[1],
                               NumeralValue(node.s[3])))
         ELSE Raise("ValueError")

\* [strptime(item['data']['value'], '%b %d, %Y').date() for item in items]
RECURSIVE ValueDates(_)
ValueDates(items) ==
    IF items = <<>> THEN Ok(<<>>)
    ELSE Then(PyIndex(Head(items), DATA), LAMBDA data :
         Then(PyIndex(data, VALUE), LAMBDA v :
         Then(StrpDate(v), LAMBDA d :
         Then(ValueDates(Tail(items)), LAMBDA t : Ok(<<d>> \o t)))))

\* The key of the category tree: the primary key unless json_file.get(primary)
\* is falsy, the alternate key then.
TreeKey(json_file, primary, alternate) ==
    Then(PyGet(json_file, primary), LAMBDA got :
         Ok(IF ~Truthy(got) THEN alternate ELSE primary))

\* The categories of the tree.
Categories(json_file, primary, alternate) ==
    Then(TreeKey(json_file, primary, alternate), LAMBDA json_key :
         ItemsAt(json_file, json_key))

\* node['name'] == label
NameIs(node, label) == Then(PyIndex(node, NAME), LAMBDA nm : Ok(nm = JStr(<<label>>)))

\* for watchtype in children: if watchtype['name'] == "Time Viewed": views[...] = ...
RECURSIVE WatchTypes(_, _)
WatchTypes(children, views) ==
    IF children = <<>> THEN Ok(views)
    ELSE Then(NameIs(Head(children), "Time Viewed"), LAMBDA is :
         IF is
         THEN Then(DatesOfEntries(Head(children)), LAMBDA dates :
                   WatchTypes(Tail(children), DictSet(views, "viewed_video", dates)))
         ELSE WatchTypes(Tail(children), views))

\* for market_view in children: views["viewed_marketplace_item"] = ...
RECURSIVE MarketViews(_, _)
MarketViews(children, views) ==
    IF children = <<>> THEN Ok(views)
    ELSE Then(DatesOfEntries(Head(children)), LAMBDA dates :
              MarketViews(Tail(children), DictSet(views, "viewed_marketplace_item", dates)))

\* The three ifs of the loop of get_viewed, for one category.
ViewedVideos(category, views) ==
    Then(NameIs(category, "Facebook Watch Videos and Shows"), LAMBDA is :
         IF is THEN Then(ItemsAt(category, CHILDREN), LAMBDA ch : WatchTypes(ch, views))
         ELSE Ok(views))

ViewedArticles(category, views) ==
    Then(NameIs(category, "Articles"), LAMBDA is :
         IF is THEN Then(DatesOfEntries(category), LAMBDA dates :
                         Ok(DictSet(views, "viewed_article", dates)))
         ELSE Ok(views))

ViewedMarketplace(category, views) ==
    Then(NameIs(category, "Marketplace"), LAMBDA is :
         IF is THEN Then(ItemsAt(category, CHILDREN), LAMBDA ch : MarketViews(ch, views))
         ELSE Ok(views))

RECURSIVE ViewedFrom(_, _)
ViewedFrom(categories, views) ==
    IF categories = <<>> THEN Ok(views)
    ELSE Then(ViewedVideos(Head(categories), views), LAMBDA v1 :
         Then(ViewedArticles(Head(categories), v1), LAMBDA v2 :
         Then(ViewedMarketplace(Head(categories), v2), LAMBDA v3 :
              ViewedFrom(Tail(categories), v3))))

\* get_viewed on loaded content: the dict views.
get_viewed(json_file) ==
    Then(Categories(json_file, <<"viewed_things">>, <<"recently_viewed">>),
         LAMBDA categories : ViewedFrom(categories, EmptyDict))

\* The category labels of get_visited and the key each one fills.
VisitedLabels == <<"Profile visits", "Page visits", "Events visited",
                   "Groups visited", "Marketplace Visits">>

VisitedKeys == <<"visited_profile", "visited_page", "visited_event_page",
                 "visited_group_page", "visited_marketplace">>

\* The dates of the entries of a category of get_visited.
VisitDates(items, label) ==
    IF label = "Marketplace Visits" THEN ValueDates(items) ELSE EntryDates(items)

\* The five ifs of the loop of get_visited, from the i-th on, for one category.
RECURSIVE VisitedCategory(_, _, _)
VisitedCategory(category, i, visited) ==
    IF i > Len(VisitedLabels) THEN Ok(visited)
    ELSE Then(NameIs(category, VisitedLabels[i]), LAMBDA is :
         IF is
         THEN Then(ItemsAt(category, ENTRIES), LAMBDA items :
              Then(VisitDates(items, VisitedLabels[i]), LAMBDA dates :
                   VisitedCategory(category, i + 1,
                                   DictSet(visited, VisitedKeys[i], dates))))
         ELSE VisitedCategory(category, i + 1, visited))

RECURSIVE VisitedFrom(_, _)
VisitedFrom(categories, visited) ==
    IF categories = <<>> THEN Ok(visited)
    ELSE Then(VisitedCategory(Head(categories), 1, visited), LAMBDA v :
              VisitedFrom(Tail(categories), v))

\* get_visited on loaded content: the dict visited.
get_visited(json_file) ==
    Then(Categories(json_file, <<"visited_things">>, <<"visited_things_v2">>),
         LAMBDA categories : VisitedFrom(categories, EmptyDict))

\* get_menu_items: the dates of json_file['menu_items'][0]['entries'].
get_menu_items(json_file) ==
    Then(PyIndex(json_file, <<"menu_items">>), LAMBDA m :
         IF m.t # "list" THEN Raise("TypeError")
         ELSE IF m.kids = <<>> THEN Raise("IndexError")
         ELSE DatesOfEntries(m.kids[1]))

\* ---------------------------------------------------------------- __init__
\* The branches of the loop of __init__ that call get_timestamps: the file
\* names, the attribute set and the name of the timestamp field.
TimestampBranches == {
    [names |-> {"friends.json"}, attr |-> "added_friend", timestr |-> TIMESTAMP],
    [names |-> {"received_friend_requests.json", "friend_requests_received.json"},
     attr |-> "received_friend_request", timestr |-> TIMESTAMP],
    [names |-> {"rejected_friend_requests.json"}, attr |-> "rejected_friend_reject",
     timestr |-> TIMESTAMP],
    [names |-> {"removed_friends.json"}, attr |-> "removed_friend", timestr |-> TIMESTAMP],
    [names |-> {"apps_and_websites.json"}, attr |-> "installed_app",
     timestr |-> ADDED_TIMESTAMP],
    [names |-> {"comments.json"}, attr |-> "commented", timestr |-> TIMESTAMP],
    [names |-> {"posts_and_comments.json"}, attr |-> "reactions", timestr |-> TIMESTAMP],
    [names |-> {"other_people's_posts_to_your_timeline.json"},
     attr |-> "others_posts_timeline", timestr |-> TIMESTAMP],
    [names |-> {"notes.json"}, attr |-> "created_note", timestr |-> CREATED_TIMESTAMP],
    [names |-> {"your_event_responses.json"}, attr |-> "responded_event",
     timestr |-> START_TIMESTAMP],
    [names |-> {"your_group_membership_activity.json"},
     attr |-> "group_membership_activity", timestr |-> TIMESTAMP],
    [names |-> {"your_posts_and_comments_in_groups.json"}, attr |-> "group_posts",
     timestr |-> TIMESTAMP],
    [names |-> {"posts_from_apps_and_websites.json"}, attr |-> "apps_posts",
     timestr |-> TIMESTAMP],
    [names |-> {"event_invitations.json"}, attr |-> "event_invitation",
     timestr |-> START_TIMESTAMP],
    [names |-> {"pages.json", "pages_you've_liked.json"}, attr |-> "liked_page",
     timestr |-> TIMESTAMP],
    [names |-> {"your_pages.json"}, attr |-> "created_page", timestr |-> TIMESTAMP],
    [names |-> {"likes_on_external_sites.json"}, attr |-> "liked_external_pages",
     timestr |-> TIMESTAMP],
    [names |-> {"profile_update_history.json"}, attr |-> "profile_updated",
     timestr |-> TIMESTAMP],
    [names |-> {"your_search_history.json"}, attr |-> "searched", timestr |-> TIMESTAMP],
    [names |-> {"advertisers_you've_interacted_with.json"}, attr |-> "ad_interaction",
     timestr |-> TIMESTAMP],
    [names |-> {"pokes.json"}, attr |-> "poked", timestr |-> TIMESTAMP],
    [names |-> {"polls_you_voted_on.json"}, attr |-> "voted", timestr |-> TIMESTAMP],
    [names |-> {"saved_items_and_collections.json"}, attr |-> "saved_item",
     timestr |-> TIMESTAMP],
    [names |-> {"following.json", "who_you_follow.json"}, attr |-> "followed_sb_st",
     timestr |-> TIMESTAMP],
    [names |-> {"your_address_books.json"}, attr |-> "addressbook_entry",
     timestr |-> CREATED_TIMESTAMP] }

IsTimestampFile(name) == \E b \in TimestampBranches : name \in b.names

BranchOf(name) == CHOOSE b \in TimestampBranches : name \in b.names

OwnPostsNames == {"your_posts_1.json"}
ViewedNames == {"viewed.json", "recently_viewed.json"}
VisitedNames == {"visited.json", "recently_visited.json"}
MenuItemsNames == {"menu_items.json"}

\* A file name that some branch of the loop of __init__ handles.
IsRecognized(name) ==
    \/ IsTimestampFile(name)
    \/ name \in OwnPostsNames \cup ViewedNames \cup VisitedNames \cup MenuItemsNames

\* The keys of a splitter's result that __init__ copies, each to the
\* attribute it is copied to.
OwnPostsAttrs == { <<"own_posts_all", "own_posts_all">>,
                   <<"own_posts_media", "own_posts_media">>,
                   <<"own_posts_text_only", "own_posts_text_only">>,
                   <<"own_posts_links", "own_posts_links">> }

ViewedAttrs == { <<"viewed_video", "viewed_video">>,
                 <<"viewed_article", "viewed_article">>,
                 <<"viewed_marketplace_item", "viewed_marketplace_item">> }

VisitedAttrs == { <<"visited_profile", "visited_profile">>,
                  <<"visted_page", "visited_page">>,
                  <<"visited_event_page", "visited_event_page">>,
                  <<"visited_group_page", "visited_group_page">>,
                  <<"visited_marketplace", "visited_marketplace">> }

MessageAttrs == { <<"message_sent", "message_sent">>,
                  <<"message_received", "message_received">>,
                  <<"message_received_or_sent", "message_received_or_sent">> }

\* for key, dates in result.items(): if key == k: self.<attribute> = dates,
\* for the pairs <<k, attribute>> of table
RECURSIVE CopyItems(_, _, _, _)
CopyItems(ks, vs, table, attributes) ==
    IF ks = <<>> THEN attributes
    ELSE IF \E p \in table : p[1] = Head(ks)
         THEN CopyItems(Tail(ks), Tail(vs), table,
                        DictSet(attributes, (CHOOSE p \in table : p[1] = Head(ks))[2],
                                DateList(Head(vs))))
         ELSE CopyItems(Tail(ks), Tail(vs), table, attributes)

\* load_file had a file that cannot be parsed been read as an empty mapping.
load_file_Lenient(file) == IF file.parsable THEN Ok(file.content) ELSE Ok(JDict(<<>>, <<>>))

\* with open(file_path) as data_file: return json.load(data_file)
load_file(file) == IF file.parsable THEN Ok(file.content) ELSE Raise("JSONDecodeError")

\* self.<attribute> = self.get_timestamps(file, timestr)
SetTimestamps(attributes, file, branch) ==
    Then(load_file(file), LAMBDA json_file :
    Then(get_timestamps(json_file, branch.timestr), LAMBDA value :
         Ok(DictSet(attributes, branch.attr, value))))

\* self.clicked_menu_items = self.get_menu_items(file)
SetMenuItems(attributes, file) ==
    Then(load_file(file), LAMBDA json_file :
    Then(get_menu_items(json_file), LAMBDA dates :
         Ok(DictSet(attributes, "clicked_menu_items", DateList(dates)))))

SetOwnPosts(attributes, file) ==
    Then(load_file(file), LAMBDA json_file :
    Then(get_own_posts(json_file), LAMBDA posts :
         Ok(CopyItems(posts.keys, posts.vals, OwnPostsAttrs, attributes))))

SetViewed(attributes, file) ==
    Then(load_file(file), LAMBDA json_file :
    Then(get_viewed(json_file), LAMBDA views :
         Ok(CopyItems(views.keys, views.vals, ViewedAttrs, attributes))))

SetVisited(attributes, file) ==
    Then(load_file(file), LAMBDA json_file :
    Then(get_visited(json_file), LAMBDA visited :
         Ok(CopyItems(visited.keys, visited.vals, VisitedAttrs, attributes))))

\* ProcessOne had a file of no known name been loaded before it is left out.
ProcessOne_LoadsAll(attributes, file) ==
    CASE IsTimestampFile(file.name) -> SetTimestamps(attributes, file, BranchOf(file.name))
      [] file.name \in OwnPostsNames -> SetOwnPosts(attributes, file)
      [] file.name \in ViewedNames -> SetViewed(attributes, file)
      [] file.name \in VisitedNames -> SetVisited(attributes, file)
      [] file.name \in MenuItemsNames -> SetMenuItems(attributes, file)
      [] OTHER -> Then(load_file(file), LAMBDA json_file : Ok(attributes))

\* The body of the loop of __init__ for one file: the attributes after it.
ProcessOne(attributes, file) ==
    CASE IsTimestampFile(file.name) -> SetTimestamps(attributes, file, BranchOf(file.name))
      [] file.name \in OwnPostsNames -> SetOwnPosts(attributes, file)
      [] file.name \in ViewedNames -> SetViewed(attributes, file)
      [] file.name \in VisitedNames -> SetVisited(attributes, file)
      [] file.name \in MenuItemsNames -> SetMenuItems(attributes, file)
      [] OTHER -> Ok(attributes)

\* The loop of __init__ over files, from the attributes given.
RECURSIVE ScanFiles(_, _)
ScanFiles(files, attributes) ==
    IF files = <<>> THEN Ok(attributes)
    ELSE Then(ProcessOne(attributes, Head(files)), LAMBDA after :
              ScanFiles(Tail(files), after))

\* The loop of get_messages over files, from the dict given.
RECURSIVE ReadMessages(_, _, _)
ReadMessages(files, user_name, msgs) ==
    IF files = <<>> THEN Ok(msgs)
    ELSE Then(load_file(Head(files)), LAMBDA json_file :
         Then(MessageFileDates(json_file, user_name), LAMBDA add :
              ReadMessages(Tail(files), user_name, ExtendMessages(msgs, add))))

\* get_messages: the dict it returns, the empty dict standing for None.
get_messages(files, user_name) ==
    IF SelectMessageFiles(files) = <<>> THEN Ok(EmptyDict)
    ELSE Then(ReadMessages(SelectMessageFiles(files), user_name, NewMessages),
              LAMBDA msgs : Ok(MessagesResult(msgs)))

\* __init__ as a whole: the attributes of the object constructed from the
\* files in the order given.
Construct(files, user_name) ==
    Then(ScanFiles(files, EmptyDict), LAMBDA scanned :
    Then(get_messages(files, user_name), LAMBDA msgs :
         Ok(CopyItems(msgs.keys, msgs.vals, MessageAttrs, scanned))))

\* ------------------------------------------------------------------ output
\* get_activities had it listed the activity poked whether or not it was
\* collected.
get_activities_WithPoked(attributes) == <<"poked">> \o attributes.keys

\* The names of the attributes that hold activities, in the order they were set.
get_activities(attributes) == attributes.keys

SeqToSet(seq) == {seq[i] : i \in 1..Len(seq)}

\* sorted(S), for a finite set of integers
RECURSIVE Sorted(_)
Sorted(S) ==
    IF S = {} THEN <<>>
    ELSE LET m == CHOOSE x \in S : \A y \in S : x <= y
         IN  <<m>> \o Sorted(S \ {m})

HasNone(attributes) == \E i \in 1..Len(attributes.vals) : attributes.vals[i].none

\* get_unique_dates: iterating over an attribute that is None raises.
get_unique_dates(attributes) ==
    IF HasNone(attributes) THEN Raise("TypeError")
    ELSE Ok(Sorted(UNION {SeqToSet(attributes.vals[i].dates) :
                          i \in 1..Len(attributes.vals)}))

\* Counter(dates): each date that occurs, with the number of times it occurs.
\* Counter(None) is the empty Counter.
Counter(dates) ==
    [d \in SeqToSet(dates) |-> Cardinality({i \in 1..Len(dates) : dates[i] = d})]

\* get_activity_counts: the Counter of each activity, in the order of activities.
get_activity_counts(attributes) ==
    [keys |-> attributes.keys,
     vals |-> [i \in 1..Len(attributes.keys) |-> Counter(attributes.vals[i].dates)]]

NoCsv == [written |-> FALSE, fieldnames |-> <<>>, rows |-> <<>>]

\* Cell had a date without events of the activity been written as a zero.
Cell_ZeroWritten(counter, day) ==
    [empty |-> FALSE, n |-> IF day \in DOMAIN counter THEN counter[day] ELSE 0]

\* A cell of the file: a count, or empty.
Cell(counter, day) ==
    IF day \in DOMAIN counter /\ counter[day] # 0
    THEN [empty |-> FALSE, n |-> counter[day]]
    ELSE [empty |-> TRUE, n |-> 0]

\* The rows of the file: one for each unique date.
CsvRows(unique_dates, activity_counts) ==
    [r \in 1..Len(unique_dates) |->
       [date |-> unique_dates[r],
        cells |-> [a \in 1..Len(activity_counts.keys) |->
                     Cell(activity_counts.vals[a], unique_dates[r])]]]

\* write_csv: the file written.
write_csv(attributes) ==
    Then(get_unique_dates(attributes), LAMBDA unique_dates :
         Ok([written |-> TRUE,
             fieldnames |-> <<"date">> \o get_activities(attributes),
             rows |-> CsvRows(unique_dates, get_activity_counts(attributes))]))

\* summarize_data: the count printed for each activity.
summarize_data(attributes) ==
    IF HasNone(attributes) THEN Raise("TypeError")
    ELSE Ok([i \in 1..Len(attributes.keys) |->
               [activity |-> attributes.keys[i],
                count |-> Len(attributes.vals[i].dates)]])

\* ------------------------------------------------------------------- state
VARIABLES
    json_files,      \* self.json_files: the archive's files, in the order of rglob
    user_arg,        \* the user name given to __init__
    user,            \* self.user
    attrs,           \* the activity attributes of the object, in the order set
    pc,              \* where the run is
    idx,             \* the position of the loop of __init__ in json_files
    files_messages,  \* get_messages: the files selected
    midx,            \* get_messages: the position of its loop in files_messages
    messages,        \* get_messages: the dict messages
    exc,             \* the exception that ended the run, if one did
    csv,             \* the file written by write_csv
    summary          \* the lines printed by summarize_data

vars == <<json_files, user_arg, user, attrs, pc, idx, files_messages, midx,
          messages, exc, csv, summary>>

\* One step of "for file in self.json_files" in __init__.
ProcessFile ==
    /\ pc = "scan"
    /\ idx <= Len(json_files)
    /\ LET r == ProcessOne(attrs, json_files[idx])
       IN  IF r.exc # NoExc
           THEN /\ pc' = "failed"
                /\ exc' = r.exc
                /\ UNCHANGED <<attrs, idx>>
           ELSE /\ attrs' = r.val
                /\ idx' = idx + 1
                /\ UNCHANGED <<pc, exc>>
    /\ UNCHANGED <<json_files, user_arg, user, files_messages, midx, messages, csv, summary>>

\* get_messages up to its loop: select the files, return None when there are none.
GetMessagesStart ==
    /\ pc = "scan"
    /\ idx > Len(json_files)
    /\ files_messages' = SelectMessageFiles(json_files)
    /\ IF files_messages' = <<>>
       THEN pc' = "constructed" /\ UNCHANGED messages
       ELSE pc' = "messages" /\ messages' = NewMessages
    /\ UNCHANGED <<json_files, user_arg, user, attrs, idx, midx, exc, csv, summary>>

\* One step of "for file in files_messages" in get_messages.
GetMessagesFile ==
    /\ pc = "messages"
    /\ midx <= Len(files_messages)
    /\ LET r == Then(load_file(files_messages[midx]),
                     LAMBDA json_file : MessageFileDates(json_file, user))
       IN  IF r.exc # NoExc
           THEN /\ pc' = "failed"
                /\ exc' = r.exc
                /\ UNCHANGED <<messages, midx>>
           ELSE /\ messages' = ExtendMessages(messages, r.val)
                /\ midx' = midx + 1
                /\ UNCHANGED <<pc, exc>>
    /\ UNCHANGED <<json_files, user_arg, user, attrs, idx, files_messages, csv, summary>>

\* The end of get_messages and the copy of its result into the attributes.
GetMessagesFinish ==
    /\ pc = "messages"
    /\ midx > Len(files_messages)
    /\ messages' = MessagesResult(messages)
    /\ attrs' = CopyItems(messages'.keys, messages'.vals, MessageAttrs, attrs)
    /\ pc' = "constructed"
    /\ UNCHANGED <<json_files, user_arg, user, idx, files_messages, midx, exc, csv, summary>>

\* main: facebook_data.write_csv()
WriteCsv ==
    /\ pc = "constructed"
    /\ LET r == write_csv(attrs)
       IN  IF r.exc # NoExc
           THEN pc' = "failed" /\ exc' = r.exc /\ UNCHANGED csv
           ELSE pc' = "written" /\ csv' = r.val /\ UNCHANGED exc
    /\ UNCHANGED <<json_files, user_arg, user, attrs, idx, files_messages, midx,
                   messages, summary>>

\* main: facebook_data.summarize_data(), when --verbose was given
SummarizeData ==
    /\ pc = "written"
    /\ LET r == summarize_data(attrs)
       IN  IF r.exc # NoExc
           THEN pc' = "failed" /\ exc' = r.exc /\ UNCHANGED summary
           ELSE pc' = "summarized" /\ summary' = r.val /\ UNCHANGED exc
    /\ UNCHANGED <<json_files, user_arg, user, attrs, idx, files_messages, midx,
                   messages, csv>>

Next ==
    \/ ProcessFile
    \/ GetMessagesStart
    \/ GetMessagesFile
    \/ GetMessagesFinish
    \/ WriteCsv
    \/ SummarizeData

\* ---------------------------------------------------------------- archives
File(dir, name, parsable, content) ==
    [dir |-> dir, name |-> name, parsable |-> parsable, content |-> content]

\* A time of day on a day, in seconds since the epoch.
At(day, second) == day * SecondsPerDay + second

\* An event with the timestamp field named field, and one without any.
Event(field, ts) == D1(field, JInt(ts))
Untimed == D1(<<"name">>, JStr(<<"A">>))

\* dict[str, list[dict]] and dict[str, dict[str, list[dict]]]
Shallow(key, events) == D1(key, JList(events))
Nested(key, inner_key, events) == D1(key, D1(inner_key, JList(events)))

Message(sender, ms) ==
    D3(SENDER_NAME, JStr(sender), TIMESTAMP_MS, JInt(ms), <<"content">>, JStr(<<"A">>))

Conversation(msgs) == D2(<<"participants">>, JList(<<>>), MESSAGES, JList(msgs))

Entry(ts) == D1(TIMESTAMP, JInt(ts))
DateEntry(text) == D1(DATA, D2(NAME, JStr(<<"A">>), VALUE, JStr(text)))
Category(label, entries) == D2(NAME, JStr(<<label>>), ENTRIES, JList(entries))
Parent(label, children) == D2(NAME, JStr(<<label>>), CHILDREN, JList(children))

Post(ts, data) == D2(TIMESTAMP, JInt(ts), <<"attachments">>, JList(data))
MediaData == D1(<<"data">>, JList(<<D1(MEDIA, D1(<<"uri">>, JStr(<<"A">>)))>>))
LinkData == D1(<<"data">>, JList(<<D1(EXTERNAL_CONTEXT, D1(<<"url">>, JStr(<<"A">>)))>>))

Inbox(who) == <<"messages", "inbox", who>>

\* The files an archive of the main specification is made of.
FileUniverse == {
    File(<<"friends">>, "friends.json", TRUE,
         Shallow(<<"friends">>, <<Event(TIMESTAMP, At(0, 0))>>)),
    File(<<"friends">>, "friends.json", FALSE, JNull),
    File(<<"old", "friends">>, "friends.json", TRUE,
         Shallow(<<"friends">>, <<Event(TIMESTAMP, At(1, 0)), Event(TIMESTAMP, At(1, 9))>>)),
    File(<<"likes">>, "pages.json", TRUE,
         Shallow(<<"page_likes">>, <<Event(TIMESTAMP, At(0, 0))>>)),
    File(<<"likes">>, "pages_you've_liked.json", TRUE,
         Shallow(<<"page_likes">>, <<Event(TIMESTAMP, At(2, 0))>>)),
    File(<<"comments">>, "comments.json", TRUE,
         Nested(<<"comments">>, <<"data">>, <<Event(TIMESTAMP, At(1, 0))>>)),
    File(<<"pokes">>, "pokes.json", TRUE, Shallow(<<"pokes">>, <<Untimed>>)),
    File(<<"pokes">>, "pokes.json", TRUE, JDict(<<>>, <<>>)),
    File(<<"search">>, "your_search_history.json", TRUE,
         Nested(<<"searches">>, <<"data">>, <<Untimed>>)),
    File(<<"notes">>, "notes.json", TRUE,
         Shallow(<<"notes">>, <<Event(CREATED_TIMESTAMP, At(0, 0))>>)),
    File(<<"posts">>, "your_posts_1.json", TRUE,
         JList(<<Post(At(0, 0), <<MediaData>>), Post(At(1, 0), <<>>)>>)),
    File(<<"about_you">>, "viewed.json", TRUE,
         D1(<<"viewed_things">>,
            JList(<<Category("Articles", <<Entry(At(0, 0))>>),
                    Parent("Facebook Watch Videos and Shows",
                           <<Category("Time Viewed", <<Entry(At(1, 0))>>)>>)>>))),
    File(<<"about_you">>, "visited.json", TRUE,
         D1(<<"visited_things">>,
            JList(<<Category("Profile visits", <<Entry(At(0, 0))>>),
                    Category("Page visits", <<Entry(At(1, 0)), Entry(At(2, 0))>>),
                    Category("Marketplace Visits",
                             <<DateEntry(<<"Sep", " ", "20", ", ", "2014">>)>>)>>))),
    File(<<"about_you">>, "recently_visited.json", TRUE,
         D1(<<"visited_things_v2">>,
            JList(<<Category("Events visited", <<Entry(At(0, 0))>>),
                    Category("Groups visited", <<Entry(At(1, 0))>>)>>))),
    File(<<"about_you">>, "menu_items.json", TRUE,
         D1(<<"menu_items">>, JList(<<Category("Menu", <<Entry(At(0, 0))>>)>>))),
    File(Inbox("a"), "message_1.json", TRUE,
         Conversation(<<Message(<<"A", " ", "b">>, At(0, 0) * 1000),
                        Message(<<"B">>, At(0, 0) * 1000 + 999)>>)),
    File(Inbox("b"), "message_1.json", TRUE,
         Conversation(<<Message(<<"B">>, At(1, 0) * 1000)>>)),
    File(Inbox("b"), "message_1.json", FALSE, JNull),
    File(Inbox("a"), "comments.json", TRUE,
         Conversation(<<Message(<<"a", "B">>, At(2, 0) * 1000)>>)),
    File(<<"messages">>, "autofill_information.json", FALSE, JNull),
    File(<<"messages">>, "chat.json", TRUE,
         Conversation(<<Message(<<"B">>, At(3, 0) * 1000)>>)),
    File(<<"messages">>, "viewed.json", TRUE,
         D2(<<"viewed_things">>, JList(<<Category("Articles", <<Entry(At(0, 0))>>)>>),
            MESSAGES, JList(<<Message(<<"B">>, At(0, 0) * 1000)>>))),
    File(<<"other", "messages">>, "message_1.json", TRUE,
         Conversation(<<Message(<<"A", " ", "b">>, At(4, 0) * 1000)>>)),
    File(<<"other">>, "unknown.json", FALSE, JNull) }

UserArgs == { <<"A", " ", "b">>, <<"a", "B">>, <<"B", "b">> }

SamePath(f, g) == f.dir = g.dir /\ f.name = g.name

\* The lists of at most n files of a universe, no path twice, in every order.
Archives(universe, n) ==
    UNION { {a \in [1..k -> universe] :
               \A i, j \in 1..k : i # j => ~SamePath(a[i], a[j])} : k \in 0..n }

\* The state at the start of __init__.
Start(files, name) ==
    /\ json_files = files
    /\ user_arg = name
    /\ user = Normalize(name)
    /\ attrs = EmptyDict
    /\ pc = "scan"
    /\ idx = 1
    /\ files_messages = <<>>
    /\ midx = 1
    /\ messages = EmptyDict
    /\ exc = NoExc
    /\ csv = NoCsv
    /\ summary = <<>>

Init == \E files \in Archives(FileUniverse, MaxFiles), name \in UserArgs : Start(files, name)

Spec == Init /\ [][Next]_vars

\* --------------------------------------------- archives of one kind of file
\* The lists of at most n members of S.
SeqsUpTo(S, n) == UNION {[1..k -> S] : k \in 0..n}

\* Events of a file of events: without a timestamp, twice on one day under
\* one field name, and under another field name.
Events == { Untimed, Event(TIMESTAMP, At(0, 0)), Event(TIMESTAMP, At(0, 9)),
            Event(CREATED_TIMESTAMP, At(1, 0)) }

EventLists == {JList(events) : events \in SeqsUpTo(Events, MaxEvents)}

InnerKeys == { <<"data">>, TIMESTAMP, CREATED_TIMESTAMP }

\* The values of the top-level keys: a list of events, or a mapping of inner
\* keys to lists of events.
TopValues ==
    EventLists \cup {JDict(<<>>, <<>>)} \cup {D1(k, l) : k \in InnerKeys, l \in EventLists}

\* A second top-level value next to the first.
MoreValues == { JList(<<>>), JList(<<Untimed>>), JList(<<Event(TIMESTAMP, At(2, 0))>>),
                D1(<<"data">>, JList(<<Event(TIMESTAMP, At(2, 0))>>)) }

EventContents ==
    {JDict(<<>>, <<>>)}
    \cup {D1(<<"k1">>, v) : v \in TopValues}
    \cup {D2(<<"k1">>, v, <<"k2">>, w) : v \in TopValues, w \in MoreValues}
    \cup {D2(<<"k1">>, w, <<"k2">>, v) : v \in TopValues, w \in MoreValues}

\* One file of events, read with the field name timestamp (friends.json) or
\* created_timestamp (notes.json).
InitTimestamps ==
    \E content \in EventContents, name \in {"friends.json", "notes.json"} :
        Start(<<File(<<"data">>, name, TRUE, content)>>, <<"A">>)

SpecTimestamps == InitTimestamps /\ [][ProcessFile]_vars

\* Posts: with media, with a link, with both, with neither, and with text only
\* that mentions media.
Posts == { Post(At(0, 0), <<>>), Post(At(1, 0), <<>>),
           Post(At(0, 0), <<MediaData>>), Post(At(1, 0), <<LinkData>>),
           Post(At(0, 0), <<LinkData, MediaData>>),
           D2(TIMESTAMP, JInt(At(1, 0)), <<"title">>, JStr(<<"A", " ", "media">>)),
           D2(TIMESTAMP, JInt(At(2, 0)), <<"media_note">>, JStr(<<"A">>)) }

InitOwnPosts ==
    \E posts \in SeqsUpTo(Posts, MaxPosts) :
        Start(<<File(<<"posts">>, "your_posts_1.json", TRUE, JList(posts))>>, <<"A">>)

SpecOwnPosts == InitOwnPosts /\ [][ProcessFile]_vars

\* Conversations: the senders are written as the user's name is, in another
\* case and without the space, and as another name.
SomeMessages == { Message(<<"A", " ", "b">>, At(0, 0) * 1000),
                  Message(<<"a", "B">>, At(0, 9) * 1000 + 999),
                  Message(<<"B">>, At(0, 0) * 1000),
                  Message(<<"B", "b">>, At(1, 0) * 1000) }

MoreConversations == { Conversation(<<Message(<<"B">>, At(2, 0) * 1000)>>),
                       Conversation(<<Message(<<"a", "b">>, At(2, 0) * 1000),
                                      Message(<<"b", " ", "B">>, At(3, 0) * 1000)>>) }

MessageArchives ==
    LET first == {File(Inbox("a"), "message_1.json", TRUE, Conversation(msgs)) :
                    msgs \in SeqsUpTo(SomeMessages, MaxMessages)}
        second == {File(Inbox("b"), "message_1.json", TRUE, c) : c \in MoreConversations}
    IN  {<<f>> : f \in first}
        \cup {<<f, g>> : f \in first, g \in second}
        \cup {<<g, f>> : f \in first, g \in second}

InitMessages == \E files \in MessageArchives, name \in UserArgs : Start(files, name)

NextMessages == ProcessFile \/ GetMessagesStart \/ GetMessagesFile \/ GetMessagesFinish

SpecMessages == InitMessages /\ [][NextMessages]_vars

\* Category trees of a file of views and of a file of visits: categories
\* with no, one and two entries, with children, and of a name not looked for.
ViewedCategories ==
    { Category("Articles", <<>>),
      Category("Articles", <<Entry(At(0, 0))>>),
      Category("Articles", <<Entry(At(1, 0)), Entry(At(1, 9))>>),
      Parent("Facebook Watch Videos and Shows",
             <<Category("Time Viewed", <<Entry(At(2, 0))>>)>>),
      Parent("Facebook Watch Videos and Shows", <<Category("Other", <<>>)>>),
      Parent("Marketplace", <<Category("Item", <<Entry(At(3, 0))>>)>>),
      Category("Other", <<Entry(At(4, 0))>>) }

VisitedCategories ==
    { Category("Profile visits", <<>>),
      Category("Profile visits", <<Entry(At(0, 0))>>),
      Category("Page visits", <<Entry(At(1, 0)), Entry(At(1, 9))>>),
      Category("Events visited", <<Entry(At(2, 0))>>),
      Category("Groups visited", <<Entry(At(3, 0))>>),
      Category("Marketplace Visits", <<DateEntry(<<"Sep", " ", "20", ", ", "2014">>)>>),
      Category("Other", <<Entry(At(4, 0))>>) }

Trees(categories) == {JList(t) : t \in SeqsUpTo(categories, MaxCategories)}

\* A file of a category tree: the tree under the primary key, under the
\* alternate key, or a tree under each.
TreeContents(primary, alternate, categories) ==
    {D1(primary, t) : t \in Trees(categories)}
    \cup {D1(alternate, t) : t \in Trees(categories)}
    \cup {D2(primary, t, alternate, JList(<<c>>)) : t \in Trees(categories), c \in categories}

InitTrees ==
    \/ \E content \in TreeContents(<<"viewed_things">>, <<"recently_viewed">>,
                                    ViewedCategories) :
          Start(<<File(<<"about_you">>, "viewed.json", TRUE, content)>>, <<"A">>)
    \/ \E content \in TreeContents(<<"visited_things">>, <<"visited_things_v2">>,
                                    VisitedCategories) :
          Start(<<File(<<"about_you">>, "visited.json", TRUE, content)>>, <<"A">>)

SpecTrees == InitTrees /\ [][ProcessFile]_vars

\* ================================================================== claims
\* The lists json_files can be reordered to.
Reorderings(files) ==
    {[i \in 1..Len(files) |-> files[p[i]]] : p \in Permutations(1..Len(files))}

\* The table of get_activity_counts as a mapping: each activity to its Counter.
TableOf(attributes) ==
    [k \in SeqToSet(attributes.keys) |-> Counter(DictGet(attributes, k).dates)]

\* C1: for a fixed archive, the table of counts per activity and date that
\* __init__ and get_activity_counts build is the same for every order in which
\* the files are enumerated.
C1_OrderIndependent ==
    pc = "constructed" =>
        \A files \in Reorderings(json_files) :
            LET other == Construct(files, user_arg)
            IN  other.exc = NoExc /\ TableOf(other.val) = TableOf(attrs)

\* The number of times d occurs in dates.
Occurrences(dates, d) == Cardinality({i \in 1..Len(dates) : dates[i] = d})

\* Every event recorded for an activity in attributes "before" is recorded
\* for it in "after".
KeepsEvents(before, after) ==
    \A i \in 1..Len(before.keys) :
        /\ DictHas(after, before.keys[i])
        /\ \A d \in SeqToSet(before.vals[i].dates) :
              Occurrences(before.vals[i].dates, d)
                  <= Occurrences(DictGet(after, before.keys[i]).dates, d)

\* C9: within one run the events recorded for an activity only grow: no step
\* removes or replaces an event that was recorded.
C9_EventsOnlyGrow == [][KeepsEvents(attrs, attrs')]_vars

\* The files of the archive with a name get_visited is called for.
VisitedFiles == {i \in 1..Len(json_files) : json_files[i].name \in VisitedNames}

\* The entries of the category named label in the tree of a visited file
\* under key, when the file has that category.
HasCategory(content, key, label) ==
    /\ HasKey(content, key)
    /\ \E c \in SeqToSet(content.kids[KeyIndex(content, key)].kids) :
          c.kids[KeyIndex(c, NAME)] = JStr(<<label>>)

CategoryEntries(content, key, label) ==
    LET c == CHOOSE c \in SeqToSet(content.kids[KeyIndex(content, key)].kids) :
                 c.kids[KeyIndex(c, NAME)] = JStr(<<label>>)
    IN  c.kids[KeyIndex(c, ENTRIES)].kids

\* C8: the entries of each of the five categories of a visited file are
\* counted in the output under that category's own activity.
C8_VisitedCategoriesCounted ==
    pc = "constructed" /\ Cardinality(VisitedFiles) = 1 =>
        \A i \in VisitedFiles, key \in {<<"visited_things">>, <<"visited_things_v2">>},
           c \in 1..Len(VisitedLabels) :
            HasCategory(json_files[i].content, key, VisitedLabels[c]) =>
                /\ DictHas(attrs, VisitedKeys[c])
                /\ Len(DictGet(attrs, VisitedKeys[c]).dates)
                     = Len(CategoryEntries(json_files[i].content, key, VisitedLabels[c]))

\* A file that __init__ hands to a handler: one with a recognized name, or a
\* file of messages.
IsRouted(file) == IsRecognized(file.name) \/ IsMessageFile(file)

HasUnparsableRouted == \E i \in 1..Len(json_files) :
                           IsRouted(json_files[i]) /\ ~json_files[i].parsable

\* The file the run failed on, when it failed in one of the two loops.
FailedInScan == pc = "failed" /\ idx <= Len(json_files)
FailedInMessages == pc = "failed" /\ idx > Len(json_files) /\ midx <= Len(files_messages)

\* C10: unparsable JSON in a routed file ends the run with the parse error:
\* the object is not constructed and no file is written.
C10_UnparsableAborts ==
    /\ HasUnparsableRouted => pc \notin {"constructed", "written", "summarized"}
                              /\ ~csv.written
    /\ FailedInScan /\ IsRecognized(json_files[idx].name) /\ ~json_files[idx].parsable
          => exc = "JSONDecodeError"
    /\ FailedInMessages /\ ~files_messages[midx].parsable => exc = "JSONDecodeError"

\* C10 witness: the run failed on an unparsable file after another file was read.
C10_Witness ==
    /\ pc = "failed" /\ exc = "JSONDecodeError"
    /\ \/ FailedInScan /\ idx > 1 /\ attrs # EmptyDict
       \/ FailedInMessages /\ midx > 1

\* The dates of the events of a list that have the field, in order.
RECURSIVE PresentDates(_, _)
PresentDates(events, field) ==
    IF events = <<>> THEN <<>>
    ELSE (IF Head(events).t = "dict" /\ HasKey(Head(events), field)
          THEN <<DateOf(Head(events).kids[KeyIndex(Head(events), field)].n)>>
          ELSE <<>>) \o PresentDates(Tail(events), field)

\* The dates found in the lists among values, in order.
RECURSIVE DatesOfLists(_, _)
DatesOfLists(values, field) ==
    IF values = <<>> THEN <<>>
    ELSE (IF Head(values).t = "list" THEN PresentDates(Head(values).kids, field)
          ELSE <<>>) \o DatesOfLists(Tail(values), field)

\* The dates found in the lists within the mappings among values, in order.
RECURSIVE DatesOfMappings(_, _)
DatesOfMappings(values, field) ==
    IF values = <<>> THEN <<>>
    ELSE (IF Head(values).t = "dict" THEN DatesOfLists(Head(values).kids, field)
          ELSE <<>>) \o DatesOfMappings(Tail(values), field)

\* What the shallow and the nested form of a content hold for a field.
ShallowDates(content, field) == DatesOfLists(content.kids, field)
NestedDates(content, field) == DatesOfMappings(content.kids, field)

\* A mapping whose values are each a list of event mappings.
IsShallowForm(content) ==
    /\ content.t = "dict"
    /\ \A i \in 1..Len(content.kids) :
          /\ content.kids[i].t = "list"
          /\ \A j \in 1..Len(content.kids[i].kids) : content.kids[i].kids[j].t = "dict"

\* The first file of the archive has been handled by the loop of __init__.
FirstDone == idx > 1 \/ pc = "failed"

FirstFile == json_files[1]
FirstField == BranchOf(FirstFile.name).timestr
FirstAttr == BranchOf(FirstFile.name).attr

\* C5: a content with no timestamp in its shallow form and at least one in its
\* nested form yields exactly the dates of the nested form, whatever the inner
\* keys and the field are named; get_timestamps neither fails nor returns None.
C5_NestedFallback ==
    /\ FirstDone
    /\ ShallowDates(FirstFile.content, FirstField) = <<>>
    /\ NestedDates(FirstFile.content, FirstField) # <<>>
    => /\ pc # "failed"
       /\ DictHas(attrs, FirstAttr)
       /\ DictGet(attrs, FirstAttr) = DateList(NestedDates(FirstFile.content, FirstField))

\* C6: for a shallow-form content get_timestamps returns one date for each
\* event that has the field and none for the others: as a multiset, the dates
\* of the timestamps present.
C6_ShallowMultiset ==
    FirstDone /\ IsShallowForm(FirstFile.content)
    => /\ pc # "failed"
       /\ DictHas(attrs, FirstAttr)
       /\ ~DictGet(attrs, FirstAttr).none
       /\ Counter(DictGet(attrs, FirstAttr).dates)
            = Counter(ShallowDates(FirstFile.content, FirstField))

\* A recognized file of events that holds no timestamp in either form.
NoTimestamps(file) ==
    /\ IsTimestampFile(file.name)
    /\ file.parsable
    /\ file.content.t = "dict"
    /\ ShallowDates(file.content, BranchOf(file.name).timestr) = <<>>
    /\ NestedDates(file.content, BranchOf(file.name).timestr) = <<>>

\* C7: a recognized file without any timestamp is not fatal: in an archive
\* whose files can all be parsed the run with such a file does not fail, and
\* write_csv and summarize_data finish.
C7_NoTimestampsNotFatal ==
    /\ \A i \in 1..Len(json_files) : json_files[i].parsable
    /\ \E i \in 1..Len(json_files) : NoTimestamps(json_files[i])
    => pc # "failed"

\* The one class a post is in: media when the text of its values contains
\* media, links when it contains external_context and not media, text only
\* when it contains neither.
ClassOf(post) ==
    IF IsSubstring(MEDIA, StrValues(post)) THEN "own_posts_media"
    ELSE IF IsSubstring(EXTERNAL_CONTEXT, StrValues(post)) THEN "own_posts_links"
    ELSE "own_posts_text_only"

PostClasses == {"own_posts_media", "own_posts_links", "own_posts_text_only"}

\* The dates of the posts of a class, in order.
RECURSIVE DatesOfClass(_, _)
DatesOfClass(posts, class) ==
    IF posts = <<>> THEN <<>>
    ELSE (IF ClassOf(Head(posts)) = class
          THEN <<DateOf(Head(posts).kids[KeyIndex(Head(posts), TIMESTAMP)].n)>>
          ELSE <<>>) \o DatesOfClass(Tail(posts), class)

\* C4: each post gives one date to own_posts_all and one date to exactly one
\* of own_posts_media, own_posts_links and own_posts_text_only, the one of its
\* class; the lengths of the three add up to the length of own_posts_all.
C4_PostsPartition ==
    FirstDone /\ FirstFile.name \in OwnPostsNames
    => /\ pc # "failed"
       /\ SeqToSet(attrs.keys) = PostClasses \cup {"own_posts_all"}
       /\ Len(DictGet(attrs, "own_posts_all").dates) = Len(FirstFile.content.kids)
       /\ \A class \in PostClasses :
             DictGet(attrs, class).dates = DatesOfClass(FirstFile.content.kids, class)
       /\ Len(DictGet(attrs, "own_posts_media").dates)
            + Len(DictGet(attrs, "own_posts_links").dates)
            + Len(DictGet(attrs, "own_posts_text_only").dates)
          = Len(DictGet(attrs, "own_posts_all").dates)

\* C4 witness: a file with a post of each class, one of them with both a link
\* and media, has been read.
C4_Witness ==
    /\ FirstDone /\ pc # "failed" /\ FirstFile.name \in OwnPostsNames
    /\ \A class \in PostClasses : DictHas(attrs, class) /\ DictGet(attrs, class).dates # <<>>
    /\ \E i \in 1..Len(FirstFile.content.kids) :
          /\ IsSubstring(MEDIA, StrValues(FirstFile.content.kids[i]))
          /\ IsSubstring(EXTERNAL_CONTEXT, StrValues(FirstFile.content.kids[i]))

\* A name with its spaces removed, in lower case.
Canon(name) ==
    LET kept == SelectSeq(name, LAMBDA c : c # " ")
    IN  [i \in 1..Len(kept) |-> Lower(kept[i])]

SenderOf(message) == message.kids[KeyIndex(message, SENDER_NAME)].s

FromUser(message) == Canon(SenderOf(message)) = Canon(user_arg)

\* The messages of the first n of the files of messages, in order.
RECURSIVE MessagesOf(_)
MessagesOf(n) ==
    IF n = 0 THEN <<>>
    ELSE MessagesOf(n - 1)
         \o files_messages[n].content.kids[KeyIndex(files_messages[n].content, MESSAGES)].kids

\* The dates of the messages that are (sent) or are not from the user.
RECURSIVE DatesFrom(_, _)
DatesFrom(msgs, sent) ==
    IF msgs = <<>> THEN <<>>
    ELSE (IF FromUser(Head(msgs)) = sent
          THEN <<DateOf(Head(msgs).kids[KeyIndex(Head(msgs), TIMESTAMP_MS)].n \div 1000)>>
          ELSE <<>>) \o DatesFrom(Tail(msgs), sent)

\* C2: get_messages puts every message of every file in exactly one bucket:
\* message_sent when the sender's name without spaces and in lower case is the
\* user's name written the same way, message_received otherwise; with k >= 1
\* of n messages from the user the result has k sent and n - k received dates.
C2_MessageBuckets ==
    /\ pc = "messages" =>
          /\ DictGet(messages, "message_sent") = DatesFrom(MessagesOf(midx - 1), TRUE)
          /\ DictGet(messages, "message_received") = DatesFrom(MessagesOf(midx - 1), FALSE)
    /\ pc = "constructed" /\ DatesFrom(MessagesOf(Len(files_messages)), TRUE) # <<>> =>
          /\ DictHas(attrs, "message_sent") /\ DictHas(attrs, "message_received")
          /\ DictGet(attrs, "message_sent").dates
               = DatesFrom(MessagesOf(Len(files_messages)), TRUE)
          /\ DictGet(attrs, "message_received").dates
               = DatesFrom(MessagesOf(Len(files_messages)), FALSE)
          /\ Len(DictGet(attrs, "message_sent").dates)
               + Len(DictGet(attrs, "message_received").dates)
             = Len(MessagesOf(Len(files_messages)))

\* C2 witness: two files have been read, with messages from the user, whose
\* name is written in them otherwise than it was given, and from others.
C2_Witness ==
    /\ pc = "constructed" /\ Len(files_messages) = 2
    /\ DictHas(attrs, "message_sent") /\ DictHas(attrs, "message_received")
    /\ Len(DictGet(attrs, "message_sent").dates) >= 2
    /\ DictGet(attrs, "message_received").dates # <<>>
    /\ \E i \in 1..Len(MessagesOf(2)) :
          FromUser(MessagesOf(2)[i]) /\ SenderOf(MessagesOf(2)[i]) # user_arg

\* The keys of the result of get_messages; none when it returned None.
ResultKeys == SeqToSet(messages.keys)

\* No message of any file of messages is from the user.
NoneFromUser == DatesFrom(MessagesOf(Len(files_messages)), TRUE) = <<>>

\* C3 as claimed: if and only if no message in any file is from the user the
\* result has the single key message_received_or_sent, with every date;
\* otherwise it has exactly the keys message_sent and message_received.
C3_FallbackIff ==
    pc = "constructed" =>
        IF NoneFromUser
        THEN /\ ResultKeys = {"message_received_or_sent"}
             /\ DictGet(messages, "message_received_or_sent")
                  = DatesFrom(MessagesOf(Len(files_messages)), FALSE)
        ELSE ResultKeys = {"message_sent", "message_received"}

\* C3 as amended: the same when there is at least one file of messages; with
\* none get_messages returns None and no message attribute is set.  While
\* files are still being read the dict has the keys message_sent and
\* message_received.
C3_FallbackAfterAllFiles ==
    /\ pc = "messages" => ResultKeys = {"message_sent", "message_received"}
    /\ pc = "constructed" =>
          IF files_messages = <<>>
          THEN /\ ResultKeys = {}
               /\ \A a \in MessageAttrs : ~DictHas(attrs, a[2])
          ELSE IF NoneFromUser
          THEN /\ ResultKeys = {"message_received_or_sent"}
               /\ DictGet(messages, "message_received_or_sent")
                    = DatesFrom(MessagesOf(Len(files_messages)), FALSE)
               /\ DictHas(attrs, "message_received_or_sent")
               /\ ~DictHas(attrs, "message_sent") /\ ~DictHas(attrs, "message_received")
          ELSE /\ ResultKeys = {"message_sent", "message_received"}
               /\ ~DictHas(attrs, "message_received_or_sent")

\* C3 witness: the fallback was taken after two files were read.
C3_Witness ==
    /\ pc = "constructed" /\ Len(files_messages) = 2
    /\ ResultKeys = {"message_received_or_sent"}
    /\ Len(DictGet(messages, "message_received_or_sent")) >= 2

\* ------------------------------------------------------------ absent kinds
\* Every activity a run can collect.
AllKinds ==
    {b.attr : b \in TimestampBranches}
    \cup {p[2] : p \in OwnPostsAttrs \cup ViewedAttrs \cup VisitedAttrs \cup MessageAttrs}
    \cup {"clicked_menu_items"}

\* The activities the name of a file maps to in the loop of __init__.
NameKinds(name) ==
    CASE IsTimestampFile(name) -> {BranchOf(name).attr}
      [] name \in OwnPostsNames -> {p[2] : p \in OwnPostsAttrs}
      [] name \in ViewedNames -> {p[2] : p \in ViewedAttrs}
      [] name \in VisitedNames -> {p[2] : p \in VisitedAttrs}
      [] name \in MenuItemsNames -> {"clicked_menu_items"}
      [] OTHER -> {}

\* The activities a file maps to: by its name, and as a message file.
KindsOf(file) ==
    NameKinds(file.name)
    \cup (IF IsMessageFile(file) THEN {p[2] : p \in MessageAttrs} ELSE {})

\* The activities no file of the archive maps to.
AbsentKinds == AllKinds \ UNION {KindsOf(json_files[i]) : i \in 1..Len(json_files)}

\* The run ended with an exception raised while a file of the archive was
\* being read, or while an attribute set to None from a file was being counted.
FailedOnPresentFile ==
    \/ idx <= Len(json_files)
    \/ files_messages # <<>> /\ midx <= Len(files_messages)
    \/ HasNone(attrs)

\* C11: an activity that no file of the archive maps to is not listed by
\* get_activities, has no column in the file written and no line in the
\* summary, and its absence raises nothing: a run that fails fails on a file
\* that is present, and a run over an archive none of whose files maps to any
\* activity does not fail.
C11_AbsentKindNoOutput ==
    /\ \A kind \in AbsentKinds :
          /\ kind \notin SeqToSet(get_activities(attrs))
          /\ kind \notin SeqToSet(csv.fieldnames)
          /\ \A i \in 1..Len(summary) : summary[i].activity # kind
    /\ pc = "failed" => FailedOnPresentFile
    /\ AbsentKinds = AllKinds => pc # "failed"

\* C11 witness: a run has printed its summary for an archive with a file of
\* friends and no file of pokes; the table has a column for the one and none
\* for the other.
C11_Witness ==
    /\ pc = "summarized"
    /\ "poked" \in AbsentKinds
    /\ "added_friend" \in SeqToSet(csv.fieldnames)
    /\ "poked" \notin SeqToSet(csv.fieldnames)
    /\ csv.rows # <<>>

\* ------------------------------------------------------------ message files
\* The positions in the archive of the files under <folder>/messages, at any
\* depth, that are not named as one of the two files left out.
UnderMessagesKept ==
    {i \in 1..Len(json_files) :
        /\ json_files[i].dir # <<>>
        /\ Head(json_files[i].dir) = "messages"
        /\ json_files[i].name \notin {"autofill_information.json", "secret_groups.json"}}

\* get_messages has selected its files.
MessagesSelected ==
    \/ pc \in {"messages", "constructed", "written", "summarized"}
    \/ pc = "failed" /\ idx > Len(json_files)

\* The number of messages in the files given.
RECURSIVE TotalMessages(_)
TotalMessages(files) ==
    IF files = <<>> THEN 0
    ELSE Len(Head(files).content.kids[KeyIndex(Head(files).content, MESSAGES)].kids)
         + TotalMessages(Tail(files))

\* The number of message events among the attributes.
MessageEvents(attributes) ==
    LET n(k) == IF DictHas(attributes, k) THEN Len(DictGet(attributes, k).dates) ELSE 0
    IN  n("message_sent") + n("message_received") + n("message_received_or_sent")

\* C12: the files get_messages reads as message files are the files under
\* <folder>/messages at any depth, whatever their names, but for
\* autofill_information.json and secret_groups.json, and no file outside
\* <folder>/messages: none is read before they are selected, and once
\* get_messages has returned every message of every one of them is a message
\* event.
C12_MessageSubtreeRouted ==
    /\ ~MessagesSelected => files_messages = <<>> /\ midx = 1
    /\ MessagesSelected =>
          /\ SeqToSet(files_messages) = {json_files[i] : i \in UnderMessagesKept}
          /\ Len(files_messages) = Cardinality(UnderMessagesKept)
          /\ midx <= Len(files_messages) + 1
    /\ pc = "constructed" =>
          /\ midx = Len(files_messages) + 1
          /\ MessageEvents(attrs) = TotalMessages(files_messages)

\* C12 witness: get_messages has returned for an archive with a file named
\* chat.json directly under messages, which it read, and a file it did not
\* read: one outside messages or one of the two left out.
C12_Witness ==
    /\ pc = "constructed"
    /\ Len(json_files) = 2
    /\ Len(files_messages) = 1
    /\ files_messages[1].name = "chat.json"
    /\ files_messages[1].dir = <<"messages">>
    /\ MessageEvents(attrs) = 1

\* -------------------------------------------------------- unrecognized files
\* A file outside <folder>/messages whose name is none of the names the loop
\* of __init__ tests for.
IsUnrecognized(file) ==
    /\ ~(file.dir # <<>> /\ Head(file.dir) = "messages")
    /\ ~IsRecognized(file.name)

\* The files given without the unrecognized ones, in the same order.
RECURSIVE WithoutUnrecognized(_)
WithoutUnrecognized(files) ==
    IF files = <<>> THEN <<>>
    ELSE IF IsUnrecognized(Head(files)) THEN WithoutUnrecognized(Tail(files))
    ELSE <<Head(files)>> \o WithoutUnrecognized(Tail(files))

\* The loop of __init__ is at an unrecognized file.
AtUnrecognized == pc = "scan" /\ idx <= Len(json_files) /\ IsUnrecognized(json_files[idx])

\* The construction ended as it would have without the unrecognized files.
AsWithoutUnrecognized ==
    LET r == Construct(WithoutUnrecognized(json_files), user)
    IN  /\ pc = "constructed" => r.exc = NoExc /\ r.val = attrs
        /\ pc = "failed" /\ ~HasNone(attrs) => r.exc = exc

\* C13: the loop of __init__ passes an unrecognized file without loading it:
\* the step raises nothing whatever the file holds, leaves every activity and
\* its events as they were and writes nothing, the file is never read as a
\* message file, and the object constructed is the one that would have been
\* constructed had the file not been in the archive.
C13_UnrecognizedSkipped ==
    /\ [](AsWithoutUnrecognized
          /\ \A i \in 1..Len(files_messages) : ~IsUnrecognized(files_messages[i]))
    /\ [][AtUnrecognized =>
            /\ idx' = idx + 1
            /\ UNCHANGED <<attrs, pc, exc, files_messages, midx, messages, csv, summary>>]_vars

\* C13 witness: a run has printed its summary for an archive whose first file
\* is unrecognized and cannot be parsed and whose other file gave events.
C13_Witness ==
    /\ pc = "summarized"
    /\ Len(json_files) = 2
    /\ IsUnrecognized(json_files[1])
    /\ ~json_files[1].parsable
    /\ attrs.keys # <<>>
    /\ csv.rows # <<>>

\* ---------------------------------------------------------------- the table
\* The dates on which some collected activity has an event.
CollectedDates ==
    UNION {SeqToSet(attrs.vals[a].dates) : a \in 1..Len(attrs.keys)}

\* The sum of the cells of column a of the file.
RECURSIVE ColumnSum(_, _)
ColumnSum(rows, a) ==
    IF rows = <<>> THEN 0
    ELSE (IF Head(rows).cells[a].empty THEN 0 ELSE Head(rows).cells[a].n)
         + ColumnSum(Tail(rows), a)

\* C14: the file written has one row for each date on which some collected
\* activity has an event and no other row, the rows in strictly ascending
\* order of date, and one column for each collected activity; the cell of an
\* activity on a date is the number of its events on that date, empty when
\* there is none, so that the cells of a column add up to the number of
\* events of the activity.
C14_TableCounts ==
    csv.written =>
        /\ {csv.rows[r].date : r \in 1..Len(csv.rows)} = CollectedDates
        /\ \A r \in 1..Len(csv.rows) - 1 : csv.rows[r].date < csv.rows[r + 1].date
        /\ csv.fieldnames = <<"date">> \o attrs.keys
        /\ \A r \in 1..Len(csv.rows) :
              /\ Len(csv.rows[r].cells) = Len(attrs.keys)
              /\ \A a \in 1..Len(attrs.keys) :
                    LET n == Occurrences(attrs.vals[a].dates, csv.rows[r].date)
                        cell == csv.rows[r].cells[a]
                    IN  IF n = 0 THEN cell.empty ELSE ~cell.empty /\ cell.n = n
        /\ \A a \in 1..Len(attrs.keys) :
              ColumnSum(csv.rows, a) = Len(attrs.vals[a].dates)

\* C14 witness: a file was written with two columns of activities and two
\* rows, a cell that counts two events of one day and a cell that is empty.
C14_Witness ==
    /\ csv.written
    /\ Len(attrs.keys) = 2
    /\ Len(csv.rows) >= 2
    /\ \E r \in 1..Len(csv.rows), a \in 1..2 : csv.rows[r].cells[a] = [empty |-> FALSE, n |-> 2]
    /\ \E r \in 1..Len(csv.rows), a \in 1..2 : csv.rows[r].cells[a].empty

\* ----------------------------------------------------------- category trees
\* get_viewed on a file that holds the tree given under the key given, and
\* nothing else.
ViewedUnder(key, tree) == get_viewed(D1(key, tree))

\* The content of the file is one tree under one of the two keys of a file of
\* views.
IsOneViewedTree(content) ==
    content.keys \in {<<<<"viewed_things">>>>, <<<<"recently_viewed">>>>}

\* C15: get_viewed returns the same mapping for a category tree whether the
\* tree is under viewed_things or, viewed_things being absent, under
\* recently_viewed; the attributes the file of the run sets are the ones of
\* that mapping.
C15_AlternateKeySame ==
    FirstDone /\ FirstFile.name \in ViewedNames /\ IsOneViewedTree(FirstFile.content) =>
        LET tree == FirstFile.content.kids[1]
            primary == ViewedUnder(<<"viewed_things">>, tree)
            alternate == ViewedUnder(<<"recently_viewed">>, tree)
        IN  /\ primary.exc = NoExc
            /\ alternate.exc = NoExc
            /\ primary.val = alternate.val
            /\ pc # "failed"
            /\ attrs = CopyItems(alternate.val.keys, alternate.val.vals, ViewedAttrs, EmptyDict)

\* The primary and the alternate key of the file of a category tree, and the
\* pairs of keys and attributes __init__ copies from its result.
PrimaryKey(file) ==
    IF file.name \in ViewedNames THEN <<"viewed_things">> ELSE <<"visited_things">>

AlternateKey(file) ==
    IF file.name \in ViewedNames THEN <<"recently_viewed">> ELSE <<"visited_things_v2">>

TreeAttrs(file) == IF file.name \in ViewedNames THEN ViewedAttrs ELSE VisitedAttrs

\* The mapping of the categories of the tree under key.
SplitTree(file, key) ==
    IF file.name \in ViewedNames
    THEN ViewedFrom(file.content.kids[KeyIndex(file.content, key)].kids, EmptyDict)
    ELSE VisitedFrom(file.content.kids[KeyIndex(file.content, key)].kids, EmptyDict)

\* C16: get_viewed and get_visited read the tree under the primary key
\* whenever the file has that key, and the tree under the alternate key only
\* when it has not; in particular a primary key with an empty list of
\* categories and no alternate key gives an empty result and no failure.
C16_PrimaryKeyFirst ==
    /\ FirstDone
    /\ FirstFile.name \in ViewedNames \cup VisitedNames
    /\ HasKey(FirstFile.content, PrimaryKey(FirstFile))
         \/ HasKey(FirstFile.content, AlternateKey(FirstFile))
    => LET key == IF HasKey(FirstFile.content, PrimaryKey(FirstFile))
                  THEN PrimaryKey(FirstFile) ELSE AlternateKey(FirstFile)
           expected == SplitTree(FirstFile, key)
       IN  /\ expected.exc = NoExc
           /\ pc # "failed"
           /\ attrs = CopyItems(expected.val.keys, expected.val.vals,
                                TreeAttrs(FirstFile), EmptyDict)

\* ------------------------------------------------------------------ routing
\* The activities of messages.
MessageKinds == {p[2] : p \in MessageAttrs}

\* C17: a file is routed to one outcome only. A file get_messages reads, one
\* under <folder>/messages that is not left out, gives message events and
\* nothing else even when it is named as a file of another activity is: the
\* loop of __init__ does not fail on it, and every other activity collected
\* comes from a file outside <folder>/messages whose name maps to it.
C17_OneRoutePerFile ==
    /\ pc = "failed" /\ idx <= Len(json_files) => idx \notin UnderMessagesKept
    /\ \A kind \in SeqToSet(attrs.keys) \ MessageKinds :
          \E i \in 1..Len(json_files) :
              i \notin UnderMessagesKept /\ kind \in NameKinds(json_files[i].name)

====
